---- MODULE Spec2Model ----
(***************************************************************************)
(* Model of turanszkij/JobSystem (JobSystem.cpp / JobSystem.h): a bounded  *)
(* ring buffer of jobs drained by a pool of worker threads, with a         *)
(* label-based completion tracker (currentLabel / finishedLabel).          *)
(*                                                                         *)
(* Threads are integers: workers are 1..NumWorkers, caller threads are     *)
(* 0 (the main thread) and negative numbers (further producers).  Every    *)
(* thread has a position pc[t]; the two critical sections of the ring      *)
(* buffer run under its mutex and are therefore one atomic step each.      *)
(* Variables whose comment says "history" record what happened and are     *)
(* never read by the modelled code.                                        *)
(***************************************************************************)
EXTENDS Integers, Sequences, FiniteSets, Bags, TLC

\* ---- sizes of the model -------------------------------------------------
Capacity == 2       \* ring buffer capacity (256 in JobSystem.cpp:65)
NumWorkers == 2     \* numThreads for a machine with two hardware threads
MaxJobs == 2        \* queue entries (jobs and groups) submitted in one run
MaxJobCount == 3    \* largest jobCount passed to Dispatch
MaxGroupSize == 2   \* largest groupSize passed to Dispatch
UintBits == 4       \* width of the uint32_t arithmetic of Dispatch
OrderCapacity == 3  \* ring buffer capacity of the runs that study order
OrderJobs == 4      \* jobs submitted in the runs that study order

UintMod == 2 ^ UintBits

\* the arguments given to Dispatch: small nonzero ones and, in a run whose
\* kinds have "wide", also 0 and the largest uint32_t
JobCounts(ks) ==
  (1 .. MaxJobCount) \cup (IF "wide" \in ks THEN {0, UintMod - 1} ELSE {})

GroupSizes(ks) == (1 .. MaxGroupSize) \cup (IF "wide" \in ks THEN {0} ELSE {})

Workers == 1 .. NumWorkers

MainThread == 0

\* the main thread and one more producer
Producers == {-1, 0}

Threads == Producers \cup Workers

\* ---- jobs ---------------------------------------------------------------
\* A queue entry: kind "exec" is a plain job given to Execute, "waiter" a
\* job whose body calls Wait(), "spawner" a job whose body calls Execute(),
\* "group" the jobGroup closure of Dispatch with its captures.  id and did
\* are history; did names the Dispatch call by <<its first unit of work,
\* jobCount, groupSize>>.
MkJob(id, kind, did, jc, gs, gi) ==
  [id |-> id, kind |-> kind, did |-> did,
   jobCount |-> jc, groupSize |-> gs, groupIndex |-> gi]

NoDid == <<0, 0, 0>>

NoJob == MkJob(0, "none", NoDid, 0, 0, 0)

NoArgs ==
  [did |-> NoDid, jobCount |-> 0, groupSize |-> 0, groupCount |-> 0,
   groupIndex |-> 0]

VARIABLES
  data,           \* ThreadSafeRingBuffer::data
  head,           \* ThreadSafeRingBuffer::head
  tail,           \* ThreadSafeRingBuffer::tail
  currentLabel,   \* JobSystem::currentLabel
  finishedLabel,  \* JobSystem::finishedLabel
  pc,             \* position of every thread
  job,            \* worker lambda: std::function<void()> job
  idx,            \* jobGroup closure: loop variable i
  item,           \* the job a thread is pushing (Execute's job / jobGroup)
  args,           \* Dispatch: jobCount, groupSize, groupCount, groupIndex
  tmp,            \* value of currentLabel read by "currentLabel += n"
  capacity,       \* ThreadSafeRingBuffer: template parameter capacity
  callers,        \* the caller threads of this run
  kinds,          \* the kinds of job the callers of this run submit
  quota,          \* the units of work the callers of this run ask for
  issued,         \* history: units of work the callers asked for
  nextId,         \* history: next job id
  made,           \* history: units of work each thread asked for
  disp,           \* history: the did of every Dispatch past the zero check
  pushLog,        \* history: ids in the order push_back succeeded
  popLog,         \* history: ids in the order pop_front succeeded
  runs,           \* history: how often each job's body ran to completion
  calls,          \* history: bag of <<did, jobIndex, groupIndex>> given to f
  waitFrom        \* history: jobs submitted when the thread's Wait() began

vars == <<data, head, tail, currentLabel, finishedLabel, pc, job, idx, item,
          args, tmp, capacity, callers, kinds, quota, issued, made, nextId,
          disp, pushLog, popLog, runs, calls, waitFrom>>

queueVars == <<data, head, tail>>
histVars ==
  <<issued, made, nextId, disp, pushLog, popLog, runs, calls, waitFrom>>
scenVars == <<capacity, callers, kinds, quota>>

\* ---- ThreadSafeRingBuffer -----------------------------------------------
NextIndex(i) == (i + 1) % capacity

\* variant of IsFull: a push_back that never finds the queue full
IsFullNever(h, t) == FALSE

\* push_back: next == tail
IsFull(h, t) == NextIndex(h) = t

\* variant of IsEmpty: a pop_front that never finds the queue empty
IsEmptyNever(h, t) == FALSE

\* pop_front: tail == head
IsEmpty(h, t) == t = h

\* variant of PushBack: a full queue drops the item and reports success
PushBackLossy(h, t, d, it) ==
  IF ~IsFull(h, t)
    THEN [result |-> TRUE, head |-> NextIndex(h), data |-> [d EXCEPT ![h] = it]]
    ELSE [result |-> TRUE, head |-> h, data |-> d]

\* variant of PushBack: a full queue still takes the item into data[head]
PushBackClobber(h, t, d, it) ==
  IF ~IsFull(h, t)
    THEN [result |-> TRUE, head |-> NextIndex(h), data |-> [d EXCEPT ![h] = it]]
    ELSE [result |-> FALSE, head |-> h, data |-> [d EXCEPT ![h] = it]]

\* push_back: the result and the new head and data
PushBack(h, t, d, it) ==
  IF ~IsFull(h, t)
    THEN [result |-> TRUE, head |-> NextIndex(h), data |-> [d EXCEPT ![h] = it]]
    ELSE [result |-> FALSE, head |-> h, data |-> d]

\* variant of PopFront: a pop_front that does not advance tail
PopFrontStale(h, t, d, it) ==
  IF ~IsEmpty(h, t)
    THEN [result |-> TRUE, tail |-> t, item |-> d[t]]
    ELSE [result |-> FALSE, tail |-> t, item |-> it]

\* variant of PopFront: a pop_front that hands out the newest job
PopFrontNewest(h, t, d, it) ==
  IF ~IsEmpty(h, t)
    THEN [result |-> TRUE, tail |-> NextIndex(t),
          item |-> d[(h + capacity - 1) % capacity]]
    ELSE [result |-> FALSE, tail |-> t, item |-> it]

\* pop_front: the result, the new tail and the caller's item
PopFront(h, t, d, it) ==
  IF ~IsEmpty(h, t)
    THEN [result |-> TRUE, tail |-> NextIndex(t), item |-> d[t]]
    ELSE [result |-> FALSE, tail |-> t, item |-> it]

\* ---- condition variable -------------------------------------------------
Sleepers(p) == {w \in Workers : p[w] = "sleep"}

\* variant of NotifyOne: a notify_one that unblocks nobody
NotifyNone(p) == {p}

\* wakeCondition.notify_one(): the positions after one waiting worker, if
\* there is any, has been unblocked; it leaves wait() and loops
NotifyOne(p) ==
  IF Sleepers(p) = {} THEN {p}
  ELSE {[p EXCEPT ![w] = "pop"] : w \in Sleepers(p)}

\* ---- completion tracker -------------------------------------------------
\* variant of IsBusy: idle one job early
IsBusyOffByOne == finishedLabel + 1 < currentLabel

IsBusy == finishedLabel < currentLabel

\* where a call returns to: a caller is then between calls ("waited" after
\* a Wait(), "skipped" after a Dispatch that returned at its zero check,
\* "idle" after any other call); on a worker the call was the last
\* statement of the job's body, which returns to the worker lambda
Ret(t, waited) ==
  IF t \in Workers THEN "fin"
  ELSE IF waited THEN "waited" ELSE "idle"

AtCallSite(t) ==
  IF t \in Workers THEN FALSE ELSE pc[t] \in {"idle", "waited", "skipped"}

\* history: the jobs whose submission is complete
InFlight == {item[t].id : t \in Threads} \ {0}

Submitted == (1 .. (nextId - 1)) \ InFlight

\* ---- Dispatch arithmetic (uint32_t, modulo 2^w) -------------------------
Min(a, b) == IF a < b THEN a ELSE b

\* variant of ZeroCheck: only groupSize is looked at
ZeroCheckGroupSizeOnly(jobCount, groupSize) == groupSize = 0

\* if (jobCount == 0 || groupSize == 0)
ZeroCheck(jobCount, groupSize) == jobCount = 0 \/ groupSize = 0

\* variant of GroupCount: the division rounds down
GroupCountFloor(jobCount, groupSize) == jobCount \div groupSize

GroupCount(jobCount, groupSize) ==
  ((jobCount + groupSize - 1) % UintMod) \div groupSize

\* variant of GroupJobOffset: the group starts one index late
GroupJobOffsetLate(groupIndex, groupSize) ==
  (groupIndex * groupSize + 1) % UintMod

GroupJobOffset(groupIndex, groupSize) == (groupIndex * groupSize) % UintMod

GroupJobEnd(groupJobOffset, groupSize, jobCount) ==
  Min((groupJobOffset + groupSize) % UintMod, jobCount)

\* ---- initial states -----------------------------------------------------
\* The state after Initialize(): an empty queue, both labels 0, every
\* worker at the top of its loop, the callers of the run between calls.
InitSized(c, ws, cs, ks, q) ==
  /\ capacity = c
  /\ data = [i \in 0 .. (c - 1) |-> NoJob]
  /\ head = 0
  /\ tail = 0
  /\ currentLabel = 0
  /\ finishedLabel = 0
  /\ callers = cs
  /\ kinds = ks
  /\ quota = q
  /\ pc = [t \in Threads |->
             IF t \in ws THEN "pop" ELSE IF t \in cs THEN "idle" ELSE "off"]
  /\ job = [w \in Workers |-> NoJob]
  /\ idx = [w \in Workers |-> 0]
  /\ item = [t \in Threads |-> NoJob]
  /\ args = [t \in Threads |-> NoArgs]
  /\ tmp = [t \in Threads |-> 0]
  /\ issued = 0
  /\ made = [t \in Threads |-> 0]
  /\ nextId = 1
  /\ disp = {}
  /\ pushLog = << >>
  /\ popLog = << >>
  /\ runs = [j \in 1 .. q |-> 0]
  /\ calls = EmptyBag
  /\ waitFrom = [t \in Threads |-> {}]

\* jobPool with the capacity of the model
InitWith(cs, ks, q) == InitSized(Capacity, Workers, cs, ks, q)

Init == InitWith({MainThread}, {"exec", "group"}, MaxJobs)

InitExec == InitWith({MainThread}, {"exec"}, MaxJobs)

InitNested == InitWith({MainThread}, {"exec", "waiter"}, MaxJobs)

InitMP == InitWith(Producers, {"exec"}, MaxJobs)

InitWide == InitWith({MainThread}, {"group", "wide"}, 1)

InitOrder ==
  InitSized(OrderCapacity, Workers, {MainThread}, {"exec"}, OrderJobs)

InitGroups == InitWith({MainThread}, {"group"}, MaxJobs)

\* the caller submits as many jobs as the workers and the queue can hold
\* together; each of them calls Execute
InitSpawn == InitWith({MainThread}, {"spawner"}, NumWorkers + Capacity - 1)

\* a machine with one hardware thread: numThreads = 1
InitSerial ==
  InitSized(OrderCapacity, {1}, {MainThread}, {"exec", "group"}, OrderCapacity)

InitArith == InitWith({MainThread}, {"arith"}, 0)

\* ---- steps shared by Execute and Dispatch -------------------------------
\* while (!jobPool.push_back(job)) { poll(); } : one attempt
TryPush(t, from, ok, full) ==
  /\ pc[t] = from
  /\ LET r == PushBack(head, tail, data, item[t]) IN
       /\ head' = r.head
       /\ data' = r.data
       /\ pc' = [pc EXCEPT ![t] = IF r.result THEN ok ELSE full]
       /\ pushLog' = IF r.result THEN Append(pushLog, item[t].id) ELSE pushLog
  /\ UNCHANGED <<tail, currentLabel, finishedLabel, job, idx, item,
                 args, tmp, issued, made, nextId, disp, popLog, runs, calls,
                 waitFrom, scenVars>>

\* poll(): notify_one, then yield
Poll(t, from, to) ==
  /\ pc[t] = from
  /\ \E q \in NotifyOne(pc) : pc' = [q EXCEPT ![t] = to]
  /\ UNCHANGED <<queueVars, currentLabel, finishedLabel, job, idx,
                 item, args, tmp, histVars, scenVars>>

\* ---- Execute ------------------------------------------------------------
\* the call, up to the read of currentLabel in "currentLabel += 1"
ExecuteCall(t, k) ==
  /\ AtCallSite(t)
  /\ k \in kinds \ {"group"}
  /\ issued < quota
  /\ item' = [item EXCEPT ![t] = MkJob(nextId, k, NoDid, 0, 0, 0)]
  /\ tmp' = [tmp EXCEPT ![t] = currentLabel]
  /\ nextId' = nextId + 1
  /\ issued' = issued + 1
  /\ made' = [made EXCEPT ![t] = @ + 1]
  /\ pc' = [pc EXCEPT ![t] = "ex_store"]
  /\ waitFrom' = [waitFrom EXCEPT ![t] = {}]
  /\ UNCHANGED <<queueVars, currentLabel, finishedLabel, job, idx,
                 args, disp, pushLog, popLog, runs, calls, scenVars>>

\* the write of "currentLabel += 1"
ExecuteStore(t) ==
  /\ pc[t] = "ex_store"
  /\ currentLabel' = tmp[t] + 1
  /\ tmp' = [tmp EXCEPT ![t] = 0]
  /\ pc' = [pc EXCEPT ![t] = "ex_push"]
  /\ UNCHANGED <<queueVars, finishedLabel, job, idx, item, args,
                 histVars, scenVars>>

ExecutePush(t) == TryPush(t, "ex_push", "ex_notify", "ex_poll")

ExecutePoll(t) == Poll(t, "ex_poll", "ex_push")

\* history: one more completed run of the body of job id
Ran(r, id) == IF id \in DOMAIN r THEN [r EXCEPT ![id] = @ + 1] ELSE r

\* wakeCondition.notify_one() and the return; on a worker the body of its
\* job returns with it
ExecuteNotify(t) ==
  /\ pc[t] = "ex_notify"
  /\ \E q \in NotifyOne(pc) : pc' = [q EXCEPT ![t] = Ret(t, FALSE)]
  /\ item' = [item EXCEPT ![t] = NoJob]
  /\ runs' = IF t \in Workers THEN Ran(runs, job[t].id) ELSE runs
  /\ UNCHANGED <<queueVars, currentLabel, finishedLabel, job, idx,
                 args, tmp, issued, made, nextId, disp, pushLog, popLog,
                 calls, waitFrom, scenVars>>

\* ---- IsBusy / Wait ------------------------------------------------------
WaitCall(t) ==
  /\ AtCallSite(t)
  /\ pc' = [pc EXCEPT ![t] = "wait"]
  /\ waitFrom' = [waitFrom EXCEPT ![t] = Submitted]
  /\ UNCHANGED <<queueVars, currentLabel, finishedLabel, job, idx,
                 item, args, tmp, issued, made, nextId, disp, pushLog, popLog,
                 runs, calls, scenVars>>

\* while (IsBusy()) : one evaluation of the loop condition
WaitCheck(t) ==
  /\ pc[t] = "wait"
  /\ pc' = [pc EXCEPT ![t] = IF IsBusy THEN "wait_poll" ELSE Ret(t, TRUE)]
  /\ runs' = IF ~IsBusy /\ t \in Workers THEN Ran(runs, job[t].id) ELSE runs
  /\ UNCHANGED <<queueVars, currentLabel, finishedLabel, job, idx, item,
                 args, tmp, issued, made, nextId, disp, pushLog, popLog,
                 calls, waitFrom, scenVars>>

WaitPoll(t) == Poll(t, "wait_poll", "wait")

\* ---- Dispatch -----------------------------------------------------------
\* the call: the zero check, groupCount, and the read of currentLabel in
\* "currentLabel += groupCount"
DispatchCall(t, jobCount, groupSize) ==
  /\ AtCallSite(t)
  /\ "group" \in kinds
  /\ IF ZeroCheck(jobCount, groupSize)
       THEN /\ pc' = [pc EXCEPT ![t] = "skipped"]
            /\ UNCHANGED <<args, tmp, issued, made, disp>>
       ELSE LET gc == GroupCount(jobCount, groupSize) IN
            /\ issued + gc <= quota
            /\ pc' = [pc EXCEPT ![t] = "d_store"]
            /\ args' = [args EXCEPT ![t] =
                          [did |-> <<issued + 1, jobCount, groupSize>>,
                           jobCount |-> jobCount,
                           groupSize |-> groupSize, groupCount |-> gc,
                           groupIndex |-> 0]]
            /\ tmp' = [tmp EXCEPT ![t] = currentLabel]
            /\ issued' = issued + gc
            /\ made' = [made EXCEPT ![t] = @ + gc]
            /\ disp' = disp \cup {<<issued + 1, jobCount, groupSize>>}
  /\ waitFrom' = [waitFrom EXCEPT ![t] = {}]
  /\ UNCHANGED <<queueVars, currentLabel, finishedLabel, job, idx, item, nextId,
                 pushLog, popLog, runs, calls, scenVars>>

\* the write of "currentLabel += groupCount"; groupIndex = 0
DispatchStore(t) ==
  /\ pc[t] = "d_store"
  /\ currentLabel' = tmp[t] + args[t].groupCount
  /\ tmp' = [tmp EXCEPT ![t] = 0]
  /\ pc' = [pc EXCEPT ![t] = "d_loop"]
  /\ UNCHANGED <<queueVars, finishedLabel, job, idx, item, args,
                 histVars, scenVars>>

\* groupIndex < groupCount: build the jobGroup closure, or return
DispatchLoop(t) ==
  /\ pc[t] = "d_loop"
  /\ IF args[t].groupIndex < args[t].groupCount
       THEN /\ item' = [item EXCEPT ![t] =
                          MkJob(nextId, "group", args[t].did, args[t].jobCount,
                                args[t].groupSize, args[t].groupIndex)]
            /\ nextId' = nextId + 1
            /\ pc' = [pc EXCEPT ![t] = "d_push"]
            /\ UNCHANGED args
       ELSE /\ pc' = [pc EXCEPT ![t] = Ret(t, FALSE)]
            /\ args' = [args EXCEPT ![t] = NoArgs]
            /\ UNCHANGED <<item, nextId>>
  /\ UNCHANGED <<queueVars, currentLabel, finishedLabel, job, idx,
                 tmp, issued, made, disp, pushLog, popLog, runs, calls,
                 waitFrom, scenVars>>

DispatchPush(t) == TryPush(t, "d_push", "d_notify", "d_poll")

DispatchPoll(t) == Poll(t, "d_poll", "d_push")

\* wakeCondition.notify_one(); ++groupIndex
DispatchNotify(t) ==
  /\ pc[t] = "d_notify"
  /\ \E q \in NotifyOne(pc) : pc' = [q EXCEPT ![t] = "d_loop"]
  /\ item' = [item EXCEPT ![t] = NoJob]
  /\ args' = [args EXCEPT ![t].groupIndex = (@ + 1) % UintMod]
  /\ UNCHANGED <<queueVars, currentLabel, finishedLabel, job, idx,
                 tmp, histVars, scenVars>>

\* ---- the arithmetic of Dispatch on its own ------------------------------
\* Dispatch(jobCount, groupSize, f) for nonzero arguments of any size, up to
\* groupCount; nothing is counted or enqueued
ArithCall(t, jobCount, groupSize) ==
  /\ AtCallSite(t)
  /\ "arith" \in kinds
  /\ ~ZeroCheck(jobCount, groupSize)
  /\ args' = [args EXCEPT ![t] =
                [did |-> NoDid, jobCount |-> jobCount,
                 groupSize |-> groupSize,
                 groupCount |-> GroupCount(jobCount, groupSize),
                 groupIndex |-> 0]]
  /\ pc' = [pc EXCEPT ![t] = "a_group"]
  /\ UNCHANGED <<queueVars, currentLabel, finishedLabel, job, idx, item, tmp,
                 histVars, scenVars>>

\* for (groupIndex = 0; groupIndex < groupCount; ++groupIndex): one test of
\* the loop condition; the closure of the group is built and dropped
ArithGroup(t) ==
  /\ pc[t] = "a_group"
  /\ IF args[t].groupIndex < args[t].groupCount
       THEN /\ args' = [args EXCEPT ![t].groupIndex = (@ + 1) % UintMod]
            /\ UNCHANGED pc
       ELSE /\ args' = [args EXCEPT ![t] = NoArgs]
            /\ pc' = [pc EXCEPT ![t] = Ret(t, FALSE)]
  /\ UNCHANGED <<queueVars, currentLabel, finishedLabel, job, idx, item, tmp,
                 histVars, scenVars>>

\* ---- worker loop --------------------------------------------------------
\* if (jobPool.pop_front(job))
PopJob(w) ==
  /\ pc[w] = "pop"
  /\ LET r == PopFront(head, tail, data, job[w]) IN
       /\ tail' = r.tail
       /\ job' = [job EXCEPT ![w] = r.item]
       /\ pc' = [pc EXCEPT ![w] = IF r.result THEN "run" ELSE "presleep"]
       /\ popLog' = IF r.result THEN Append(popLog, r.item.id) ELSE popLog
  /\ UNCHANGED <<data, head, currentLabel, finishedLabel, idx, item,
                 args, tmp, issued, made, nextId, disp, pushLog, runs, calls,
                 waitFrom, scenVars>>

\* job(): a plain job runs its body, a jobGroup sets i = groupJobOffset,
\* a waiter enters Wait(), a spawner enters Execute() with a plain job (up
\* to the read of currentLabel in "currentLabel += 1")
RunJob(w) ==
  /\ pc[w] = "run"
  /\ CASE job[w].kind = "group" ->
            /\ idx' = [idx EXCEPT ![w] =
                         GroupJobOffset(job[w].groupIndex, job[w].groupSize)]
            /\ pc' = [pc EXCEPT ![w] = "g_loop"]
            /\ UNCHANGED <<runs, waitFrom, item, tmp, nextId, made>>
       [] job[w].kind = "waiter" ->
            /\ pc' = [pc EXCEPT ![w] = "wait"]
            /\ waitFrom' = [waitFrom EXCEPT ![w] = Submitted]
            /\ UNCHANGED <<runs, idx, item, tmp, nextId, made>>
       [] job[w].kind = "spawner" ->
            /\ item' =
                 [item EXCEPT ![w] = MkJob(nextId, "exec", NoDid, 0, 0, 0)]
            /\ tmp' = [tmp EXCEPT ![w] = currentLabel]
            /\ nextId' = nextId + 1
            /\ made' = [made EXCEPT ![w] = @ + 1]
            /\ pc' = [pc EXCEPT ![w] = "ex_store"]
            /\ UNCHANGED <<runs, idx, waitFrom>>
       [] OTHER ->
            /\ runs' = Ran(runs, job[w].id)
            /\ pc' = [pc EXCEPT ![w] = "fin"]
            /\ UNCHANGED <<idx, waitFrom, item, tmp, nextId, made>>
  /\ UNCHANGED <<queueVars, currentLabel, finishedLabel, job, args, issued,
                 disp, pushLog, popLog, calls, scenVars>>

\* for (i = groupJobOffset; i < groupJobEnd; ++i) job(args) : one test of
\* the loop condition with the call of job(args), or the end of the closure
GroupLoop(w) ==
  /\ pc[w] = "g_loop"
  /\ LET off == GroupJobOffset(job[w].groupIndex, job[w].groupSize)
         end == GroupJobEnd(off, job[w].groupSize, job[w].jobCount)
     IN IF idx[w] < end
          THEN /\ calls' = calls (+) SetToBag(
                              {<<job[w].did, idx[w], job[w].groupIndex>>})
               /\ idx' = [idx EXCEPT ![w] = (@ + 1) % UintMod]
               /\ UNCHANGED <<pc, runs>>
          ELSE /\ runs' = Ran(runs, job[w].id)
               /\ idx' = [idx EXCEPT ![w] = 0]
               /\ pc' = [pc EXCEPT ![w] = "fin"]
               /\ UNCHANGED calls
  /\ UNCHANGED <<queueVars, currentLabel, finishedLabel, job, item,
                 args, tmp, issued, made, nextId, disp, pushLog, popLog,
                 waitFrom, scenVars>>

\* variant of FetchAdd: a job counted twice
FetchAddTwice(label) == label + 2

FetchAdd(label) == label + 1

\* finishedLabel.fetch_add(1)
Finish(w) ==
  /\ pc[w] = "fin"
  /\ finishedLabel' = FetchAdd(finishedLabel)
  /\ pc' = [pc EXCEPT ![w] = "pop"]
  /\ UNCHANGED <<queueVars, currentLabel, job, idx, item, args, tmp,
                 histVars, scenVars>>

\* std::unique_lock<std::mutex> lock(wakeMutex); wakeCondition.wait(lock):
\* the worker takes wakeMutex and, releasing it, blocks.  wakeMutex is held
\* only here and while wait() returns, never around notify_one(), so the
\* lock, the release and the block are one step.
GoSleep(w) ==
  /\ pc[w] = "presleep"
  /\ pc' = [pc EXCEPT ![w] = "sleep"]
  /\ UNCHANGED <<queueVars, currentLabel, finishedLabel, job, idx, item, args,
                 tmp, histVars, scenVars>>

\* wait() may return without a notification; the worker then goes
\* back to the top of while (true), as a notified worker does
SpuriousWake(w) ==
  /\ pc[w] = "sleep"
  /\ pc' = [pc EXCEPT ![w] = "pop"]
  /\ UNCHANGED <<queueVars, currentLabel, finishedLabel, job, idx, item, args,
                 tmp, histVars, scenVars>>

\* ---- specifications -----------------------------------------------------
\* a step inside Execute
ExecuteStep(t) ==
  \/ ExecuteStore(t)
  \/ ExecutePush(t)
  \/ ExecutePoll(t)
  \/ ExecuteNotify(t)

\* a step inside Dispatch
DispatchStep(t) ==
  \/ DispatchStore(t)
  \/ DispatchLoop(t)
  \/ DispatchPush(t)
  \/ DispatchPoll(t)
  \/ DispatchNotify(t)

\* a step inside Wait
WaitStep(t) ==
  \/ WaitCheck(t)
  \/ WaitPoll(t)

\* a step of the worker lambda outside the jobGroup closure
WorkerStep(w) ==
  \/ PopJob(w)
  \/ RunJob(w)
  \/ Finish(w)
  \/ GoSleep(w)

\* Wait and the workers
CoreNext ==
  \/ \E t \in Producers : WaitCall(t)
  \/ \E t \in Threads : WaitStep(t)
  \/ \E w \in Workers : WorkerStep(w)
  \/ \E w \in Workers : SpuriousWake(w)

ExecuteNext ==
  \/ \E t \in Producers, k \in {"exec", "waiter", "spawner"} :
        ExecuteCall(t, k)
  \/ \E t \in Threads : ExecuteStep(t)

DispatchNext ==
  \/ \E t \in Producers, jc \in JobCounts(kinds), gs \in GroupSizes(kinds) :
        DispatchCall(t, jc, gs)
  \/ \E t \in Threads : DispatchStep(t)
  \/ \E w \in Workers : GroupLoop(w)

Next == CoreNext \/ ExecuteNext \/ DispatchNext

\* every pair of nonzero uint32_t arguments
ArithNext ==
  \/ \E t \in Producers, jc \in 1 .. (UintMod - 1), gs \in 1 .. (UintMod - 1) :
        ArithCall(t, jc, gs)
  \/ \E t \in Producers : ArithGroup(t)

\* one caller thread that calls Execute, Dispatch and Wait
Spec == Init /\ [][Next]_vars

\* one caller thread that calls Execute and Wait
SpecExec == InitExec /\ [][CoreNext \/ ExecuteNext]_vars

\* one caller thread; a job may call Wait()
SpecNested == InitNested /\ [][CoreNext \/ ExecuteNext]_vars

\* two caller threads that call Execute and Wait
SpecMP == InitMP /\ [][CoreNext \/ ExecuteNext]_vars

\* one caller thread that calls Dispatch, also with the largest jobCount
SpecWide == InitWide /\ [][CoreNext \/ DispatchNext]_vars

\* one caller thread; every job calls Execute()
SpecSpawn == InitSpawn /\ [][CoreNext \/ ExecuteNext]_vars

\* one caller thread that calls Dispatch and Wait
SpecGroups == InitGroups /\ [][CoreNext \/ DispatchNext]_vars

\* one caller thread that calls Execute, Dispatch and Wait on a longer
\* queue drained by one worker
SpecSerial == InitSerial /\ [][Next]_vars

\* the arithmetic of Dispatch for every pair of nonzero arguments
SpecArith == InitArith /\ [][ArithNext]_vars

\* one caller thread that calls Execute and Wait on a longer queue
SpecOrder == InitOrder /\ [][CoreNext \/ ExecuteNext]_vars

\* Scheduling: a thread that can take a step of the call or of the loop it
\* is in eventually takes one.  Nothing makes a caller start another call,
\* and nothing makes wait() return without a notification.
Step(t) ==
  \/ ExecuteStep(t)
  \/ DispatchStep(t)
  \/ WaitStep(t)
  \/ t \in Workers /\ (WorkerStep(t) \/ GroupLoop(t))

Fairness == \A t \in Threads : WF_vars(Step(t))

FairSpec == Spec /\ Fairness

FairSpecExec == SpecExec /\ Fairness

FairSpecNested == SpecNested /\ Fairness

FairSpecSpawn == SpecSpawn /\ Fairness

\* ---- properties ---------------------------------------------------------
Count(seq, x) == Cardinality({i \in 1 .. Len(seq) : seq[i] = x})

\* history: the number of jobs pushed and not yet popped
Resident == Len(pushLog) - Len(popLog)

\* the worker is inside job(), between the pop and the fetch_add
InJob(w) == pc[w] \in {"run", "g_loop", "wait", "wait_poll"}

InWait(t) == pc[t] \in {"wait", "wait_poll"}

\* job j was pushed once, popped once, its body ran once and has returned
DoneOnce(j) ==
  /\ Count(pushLog, j) = 1
  /\ Count(popLog, j) = 1
  /\ runs[j] = 1
  /\ \A w \in Workers : InJob(w) => job[w].id # j

\* C1: with one caller thread that calls Execute any number of times and
\* then Wait, when Wait has returned every job submitted before that Wait
\* began was pushed once, popped once, and its body ran to completion
\* exactly once; none is still queued or running.
C1_WaitReturnsAfterEveryJobRanOnce ==
  pc[MainThread] = "waited" => \A j \in waitFrom[MainThread] : DoneOnce(j)

\* C1 witness: Wait has returned after MaxJobs Execute calls and every
\* one of the jobs has run.
C1_Witness ==
  /\ pc[MainThread] = "waited"
  /\ waitFrom[MainThread] = 1 .. MaxJobs
  /\ \A j \in 1 .. MaxJobs : runs[j] = 1

\* C2: when Wait has returned after Dispatch(jobCount, groupSize, f) with
\* jobCount > 0 and groupSize > 0, f was called exactly once for every index
\* in [0, jobCount) with groupIndex = index div groupSize, and f was never
\* called with an index outside the range or another groupIndex.
C2_DispatchCallsEveryIndexOnce ==
  /\ \A c \in BagToSet(calls) :
        /\ c[1] \in disp
        /\ c[2] < c[1][2]
        /\ c[3] = c[2] \div c[1][3]
        /\ CopiesIn(c, calls) = 1
  /\ pc[MainThread] = "waited" =>
        \A d \in disp : \A i \in 0 .. (d[2] - 1) :
           CopiesIn(<<d, i, i \div d[3]>>, calls) = 1

\* C3: a queue entry is handed to at most one worker and executed at most
\* once: no entry is popped twice, no job's body runs twice, and two
\* workers are never inside the same job.
C3_EachEntryPoppedAndRunAtMostOnce ==
  /\ \A j \in 1 .. MaxJobs : Count(popLog, j) <= 1 /\ runs[j] <= 1
  /\ \A i \in 1 .. Len(popLog) : Count(popLog, popLog[i]) <= 1
  /\ \A v, w \in Workers :
        (v # w /\ InJob(v) /\ InJob(w)) => job[v].id # job[w].id

\* C3 witness: both producers have pushed, every job has been popped, and
\* two workers are inside two jobs at the same time.
C3_Witness ==
  /\ Len(popLog) = MaxJobs
  /\ \A t \in Producers : made[t] > 0
  /\ \E v, w \in Workers : v # w /\ pc[v] = "run" /\ pc[w] = "run"

\* C4: a Wait() called by a caller thread returns, when every job body
\* terminates and every thread is scheduled fairly.
C4_CallerWaitReturns ==
  InWait(MainThread) ~> (pc[MainThread] = "waited")

\* C4 witness: the caller is in the loop of Wait while a job is queued and
\* every worker sleeps; the wake-up of Execute was lost.
C4_Witness ==
  /\ pc[MainThread] = "wait_poll"
  /\ ~IsEmpty(head, tail)
  /\ \A w \in Workers : pc[w] = "sleep"

C6_AllProducedJobsComplete ==
  \A t \in Producers : \A m \in 1 .. MaxJobs :
    ( /\ pc[t] = "waited"
      /\ \A p \in Producers : made[p] = m
      /\ waitFrom[t] = 1 .. (Cardinality(Producers) * m) )
    => /\ currentLabel = Cardinality(Producers) * m
       /\ \A j \in waitFrom[t] : DoneOnce(j)

\* C7: a job given to Execute is executed without a further call of the
\* caller: while the caller is between calls and a job is queued, some
\* worker is not blocked in wait() and will pop it.
C7_QueuedJobHasAWakingWorker ==
  (AtCallSite(MainThread) /\ ~IsEmpty(head, tail))
    => \E w \in Workers : pc[w] # "sleep"

\* C8: with one submitting thread the completed counter never exceeds the
\* submitted counter.
C8_FinishedAtMostCurrent == finishedLabel <= currentLabel

\* C8 witness: the caller has called Dispatch, all the MaxJobs units of
\* work it asked for have completed, and both counters have reached
\* MaxJobs.
C8_Witness ==
  /\ disp # {}
  /\ made[MainThread] = MaxJobs
  /\ finishedLabel = MaxJobs
  /\ currentLabel = MaxJobs

\* the caller has counted a job in currentLabel that it has yet to push
OwesPush(t) ==
  \/ pc[t] \in {"ex_push", "ex_poll", "d_push", "d_poll"}
  \/ pc[t] = "d_loop" /\ args[t].groupIndex < args[t].groupCount

\* C9: IsBusy() is false before any submission; with one submitting thread
\* it is true while a job that was counted is not yet pushed, is queued, or
\* is with a worker that has not yet counted it as finished.  So whenever
\* IsBusy() is false the queue is empty and no worker is inside a job.
C9_BusyWhileWorkIsUnfinished ==
  /\ issued = 0 => ~IsBusy
  /\ ~IsBusy =>
        /\ IsEmpty(head, tail)
        /\ \A w \in Workers : ~InJob(w) /\ pc[w] # "fin"
        /\ ~OwesPush(MainThread)

\* C9 witness: the queue is empty and the caller is between calls, and
\* IsBusy() is true only because a worker is still inside a job.
C9_Witness ==
  /\ IsBusy
  /\ IsEmpty(head, tail)
  /\ pc[MainThread] = "idle"
  /\ \E w \in Workers : pc[w] = "run"
  /\ finishedLabel = MaxJobs - 1

\* C10: under concurrent push_back and pop_front the number of resident
\* jobs is (head - tail) mod Capacity and at most Capacity - 1; push_back
\* returns false exactly when Capacity - 1 jobs are resident, and
\* head = tail exactly when no job is resident.
C10_ResidentAtMostCapacityMinusOne ==
  /\ Resident = (head + Capacity - tail) % Capacity
  /\ Resident <= Capacity - 1
  /\ ~PushBack(head, tail, data, NoJob).result <=> Resident = Capacity - 1
  /\ head = tail <=> Resident = 0

\* C10 witness: both producers have pushed, Capacity - 1 jobs are resident
\* with head at the last index, and a producer's push_back has just
\* returned false.
C10_Witness ==
  /\ Resident = Capacity - 1
  /\ head = Capacity - 1
  /\ \A t \in Producers : made[t] > 0
  /\ \E t \in Producers : pc[t] = "ex_poll"

IsPrefix(s, t) ==
  /\ Len(s) <= Len(t)
  /\ \A i \in 1 .. Len(s) : s[i] = t[i]

\* C11: the queue is FIFO.  The jobs popped so far are, in order, the
\* first jobs pushed, and the resident jobs lie from tail on (wrapping past
\* the last index) in the order in which they were pushed, so the next
\* pop_front returns the oldest resident job.
C11_PopsInPushOrder ==
  /\ IsPrefix(popLog, pushLog)
  /\ \A k \in 0 .. (Resident - 1) :
        data[(tail + k) % capacity].id = pushLog[Len(popLog) + 1 + k]

\* C11 witness: head has wrapped past the last index while tail has not,
\* at least two jobs are resident and a job has been popped before.
C11_Witness ==
  /\ head < tail
  /\ Resident >= 2
  /\ Len(popLog) >= 1

\* the thread is about to call push_back / has had it return false or true
AtPush(p, t) == p[t] \in {"ex_push", "d_push"}

PushFailed(p, t) == p[t] \in {"ex_poll", "d_poll"}

PushDone(p, t) == p[t] \in {"ex_notify", "d_notify"}

\* C12: a failed queue operation changes nothing.  A push_back on a full
\* queue returns false and leaves head, tail and the stored jobs as they
\* were; a push_back on a queue that is not full returns true and stores
\* the job at head; a pop_front on an empty queue returns false and leaves
\* head, tail, the stored jobs and the caller's item as they were.
C12_FailedOperationChangesNothing ==
  [][ /\ \A t \in Threads :
           (AtPush(pc, t) /\ ~AtPush(pc', t)) =>
              IF IsFull(head, tail)
                THEN /\ PushFailed(pc', t)
                     /\ UNCHANGED <<data, head, tail, pushLog>>
                ELSE /\ PushDone(pc', t)
                     /\ data' = [data EXCEPT ![head] = item[t]]
                     /\ head' = NextIndex(head)
      /\ \A w \in Workers :
           (pc[w] = "pop" /\ pc'[w] # "pop") =>
              IF IsEmpty(head, tail)
                THEN /\ pc'[w] = "presleep"
                     /\ UNCHANGED <<data, head, tail, popLog>>
                     /\ job'[w] = job[w]
                ELSE pc'[w] = "run"
    ]_vars

\* C12 witness: a push_back has just returned false on a full queue while
\* a worker whose pop_front returned false still holds the job it ran
\* before.
C12_Witness ==
  /\ PushFailed(pc, MainThread)
  /\ Resident = capacity - 1
  /\ \E w \in Workers : pc[w] = "presleep" /\ job[w].id # 0

\* C13: Dispatch(0, g, f) and Dispatch(j, 0, f) are no-ops.  The step of
\* such a call returns at once: f is not invoked, nothing is enqueued, no
\* worker is signalled or otherwise moved, both labels keep their values,
\* and the call is not entered among the dispatches that submit work.
C13_ZeroDispatchIsNoOp ==
  [][ \A t \in Producers, jc \in JobCounts(kinds), gs \in GroupSizes(kinds) :
        ((jc = 0 \/ gs = 0) /\ DispatchCall(t, jc, gs)) =>
           /\ pc'[t] = "skipped"
           /\ \A u \in Threads \ {t} : pc'[u] = pc[u]
           /\ UNCHANGED <<data, head, tail, currentLabel, finishedLabel>>
           /\ UNCHANGED <<calls, pushLog, popLog, runs, disp, issued, nextId>>
    ]_vars

\* C13 witness: the caller has just returned from a Dispatch with a zero
\* argument while a job is queued, every worker sleeps and the labels
\* differ: a signal or a count would show.
C13_Witness ==
  /\ pc[MainThread] = "skipped"
  /\ ~IsEmpty(head, tail)
  /\ IsBusy
  /\ \A w \in Workers : pc[w] = "sleep"

\* the ids of the jobs stored between tail and head
Stored ==
  {data[(tail + k) % capacity].id :
     k \in 0 .. (((head + capacity - tail) % capacity) - 1)}

\* C14: backpressure loses and duplicates nothing.  With one caller that
\* submits more jobs than the queue holds: a job is inserted at most once;
\* a job whose push_back has not yet returned true is not in the queue and
\* its caller is still inside the call; a job whose submission has returned
\* was inserted exactly once; an inserted job stays stored until it is
\* popped; the caller is between calls only when every unit of work it
\* asked for has been inserted; and when Wait() has returned every job has
\* run exactly once.
C14_BackpressureLosesNothing ==
  /\ \A j \in 1 .. (nextId - 1) :
        /\ Count(pushLog, j) <= 1
        /\ j \in Submitted => Count(pushLog, j) = 1
        /\ (Count(pushLog, j) = 1 /\ Count(popLog, j) = 0) => j \in Stored
  /\ \A t \in Threads :
        (AtPush(pc, t) \/ PushFailed(pc, t)) =>
           Count(pushLog, item[t].id) = 0 /\ item[t].id \notin Stored
  /\ AtCallSite(MainThread) => Len(pushLog) = issued
  /\ pc[MainThread] = "waited" => \A j \in 1 .. issued : DoneOnce(j)

\* C14 witness: the queue holds all it can, the push_back of one job more
\* has returned false, and the caller is about to poll() and retry.
C14_Witness ==
  /\ PushFailed(pc, MainThread)
  /\ Resident = capacity - 1
  /\ item[MainThread].id = capacity
  /\ Stored = 1 .. (capacity - 1)

\* the workers inside the loop of group gi of dispatch d
Holders(d, gi) ==
  {w \in Workers :
     pc[w] = "g_loop" /\ job[w].did = d /\ job[w].groupIndex = gi}

\* the indices of dispatch d that f was called with for group gi
Called(d, gi) == {i \in 0 .. (d[2] - 1) : <<d, i, gi>> \in BagToSet(calls)}

\* the indices of group gi of dispatch d
GroupRange(d, gi) == (gi * d[3]) .. (Min((gi + 1) * d[3], d[2]) - 1)

\* C15: the indices of one group are executed by the single worker that
\* popped the group, serially and in strictly increasing order.  At any
\* time the indices a group was called with are a first part of its range,
\* each called once; while a worker is inside the group they are the
\* indices below its loop variable; a group that is begun and not complete
\* is held by exactly one worker; while different groups of one dispatch
\* may be held by different workers at the same time.
C15_GroupRunsSeriallyOnOneWorker ==
  /\ \A c \in BagToSet(calls) :
        /\ CopiesIn(c, calls) = 1
        /\ c[2] \in GroupRange(c[1], c[3])
        /\ \A i \in GroupRange(c[1], c[3]) :
              i < c[2] => i \in Called(c[1], c[3])
        /\ Called(c[1], c[3]) # GroupRange(c[1], c[3]) =>
              Cardinality(Holders(c[1], c[3])) = 1
  /\ \A w \in Workers :
        pc[w] = "g_loop" =>
          /\ Holders(job[w].did, job[w].groupIndex) = {w}
          /\ Called(job[w].did, job[w].groupIndex) =
                {i \in GroupRange(job[w].did, job[w].groupIndex) : i < idx[w]}

\* C15 witness: two workers are inside two groups of one Dispatch at the
\* same time, and the one in group 0 has called f for the first of its two
\* indices and not yet for the second.
C15_Witness ==
  \E v, w \in Workers :
    /\ pc[v] = "g_loop" /\ pc[w] = "g_loop"
    /\ job[v].did = job[w].did
    /\ job[v].groupIndex = 0 /\ job[w].groupIndex = 1
    /\ job[v].groupSize = 2
    /\ Called(job[v].did, 0) = {0}

\* ceil(a / b) in the integers
CeilDiv(a, b) == (a \div b) + (IF a % b = 0 THEN 0 ELSE 1)

\* C16: for all uint32_t jobCount > 0 and groupSize > 0 Dispatch computes
\* groupCount = ceil(jobCount / groupSize), and for every group
\* groupJobOffset = groupIndex * groupSize and
\* groupJobEnd = min(groupJobOffset + groupSize, jobCount), also where
\* jobCount + groupSize - 1 or groupIndex * groupSize + groupSize exceeds
\* the range of uint32_t.
C16_GroupArithmeticIsExact ==
  \A t \in Producers :
    pc[t] = "a_group" =>
      LET jc == args[t].jobCount
          gs == args[t].groupSize
          gi == args[t].groupIndex
      IN /\ args[t].groupCount = CeilDiv(jc, gs)
         /\ gi < args[t].groupCount =>
               /\ GroupJobOffset(gi, gs) = gi * gs
               /\ GroupJobEnd(GroupJobOffset(gi, gs), gs, jc)
                    = Min(gi * gs + gs, jc)

\* the thread is inside the loop over the groups of a Dispatch
InGroups(t) == pc[t] \in {"d_loop", "d_push", "d_poll", "d_notify"}

\* the groups of the thread's Dispatch that are in the queue's history
GroupsPushed(t) ==
  args[t].groupIndex + (IF pc[t] = "d_notify" THEN 1 ELSE 0)

\* C17: completion is counted per group.  With one caller, Dispatch has
\* groupCount = ceil(jobCount / groupSize); it raises currentLabel by
\* groupCount before it enqueues a group, then enqueues one entry per group
\* and returns when groupCount entries are enqueued; finishedLabel is the
\* number of jobs whose body has returned and that the worker has counted,
\* a group's body returns when f was called for all of its indices, and
\* when Wait() has returned finishedLabel equals currentLabel.
C17_CompletionCountedPerGroup ==
  LET t == MainThread IN
  /\ pc[t] = "d_store" =>
        /\ args[t].groupCount = CeilDiv(args[t].jobCount, args[t].groupSize)
        /\ currentLabel = issued - args[t].groupCount
        /\ Len(pushLog) = currentLabel
  /\ InGroups(t) =>
        /\ currentLabel = issued
        /\ Len(pushLog) = issued - args[t].groupCount + GroupsPushed(t)
        /\ GroupsPushed(t) <= args[t].groupCount
  /\ AtCallSite(t) => currentLabel = issued /\ Len(pushLog) = issued
  /\ \A j \in DOMAIN runs : runs[j] <= 1
  /\ finishedLabel = Cardinality({j \in DOMAIN runs : runs[j] = 1})
                       - Cardinality({w \in Workers : pc[w] = "fin"})
  /\ \A w \in Workers :
        (pc[w] = "fin" /\ job[w].kind = "group") =>
           Called(job[w].did, job[w].groupIndex)
             = GroupRange(job[w].did, job[w].groupIndex)
  /\ pc[t] = "waited" => finishedLabel = issued

\* C17 witness: Wait() has returned after Dispatch(3, 2, f): f was called
\* for three indices, two entries were enqueued and both labels are 2.
C17_Witness ==
  /\ pc[MainThread] = "waited"
  /\ disp = {<<1, 3, 2>>}
  /\ BagCardinality(calls) = 3
  /\ Len(pushLog) = 2
  /\ currentLabel = 2
  /\ finishedLabel = 2

\* the jobGroup closures in the queue, with a worker or being pushed
GroupRecords ==
  {r \in {data[i] : i \in DOMAIN data} \cup {job[w] : w \in Workers}
            \cup {item[t] : t \in Threads} : r.kind = "group"}

\* C18: for one submitting thread submission order is enqueue order and
\* dequeue order.  Job ids count the thread's jobs in the order in which
\* Execute was called and in which Dispatch built its groups; the i-th job
\* submitted is the i-th inserted and the i-th popped, and group
\* groupIndex of a Dispatch is the groupIndex-th job after the first job
\* of that Dispatch.
C18_SubmissionOrderIsQueueOrder ==
  /\ \A i \in 1 .. Len(pushLog) : pushLog[i] = i
  /\ \A i \in 1 .. Len(popLog) : popLog[i] = i
  /\ \A r \in GroupRecords : r.id = r.did[1] + r.groupIndex

\* C18 witness: after an Execute and a Dispatch of two groups the job of
\* Execute has been popped and the two groups are resident, group 0 at
\* tail and group 1 behind it.
C18_Witness ==
  /\ popLog = <<1>>
  /\ Resident = 2
  /\ data[tail].kind = "group" /\ data[tail].groupIndex = 0
  /\ data[NextIndex(tail)].kind = "group"
  /\ data[NextIndex(tail)].groupIndex = 1
  /\ data[NextIndex(tail)].did = data[tail].did

\* the state of job j: 0 not yet submitted, 1 Submitted (being counted and
\* pushed by its caller), 2 Queued, 3 Running, 4 Completed
Phase(j) ==
  IF j >= nextId THEN 0
  ELSE IF Count(pushLog, j) = 0 THEN 1
  ELSE IF Count(popLog, j) = 0 THEN 2
  ELSE IF runs[j] = 0 THEN 3
  ELSE 4

\* the workers inside the body of job j
Runners(j) == {w \in Workers : InJob(w) /\ job[w].id = j}

\* C19 (states): with one submitting thread, a job that is enqueued has
\* been counted in currentLabel; a Queued job is stored in the queue and
\* with no worker; a Running job was popped once, is no longer stored and
\* is with exactly one worker; a Completed job was pushed once and popped
\* once, is neither stored nor with a worker inside its body; finishedLabel
\* counts only jobs whose body has returned.
PhaseInv ==
  /\ \A j \in DOMAIN runs :
        /\ Phase(j) >= 2 => j <= currentLabel
        /\ Phase(j) \in {0, 1} => j \notin Stored /\ Runners(j) = {}
        /\ Phase(j) = 2 => j \in Stored /\ Runners(j) = {}
        /\ Phase(j) = 3 =>
              /\ j \notin Stored
              /\ Cardinality(Runners(j)) = 1
              /\ Count(pushLog, j) = 1 /\ Count(popLog, j) = 1
        /\ Phase(j) = 4 =>
              /\ j \notin Stored
              /\ Runners(j) = {}
              /\ Count(pushLog, j) = 1 /\ Count(popLog, j) = 1
              /\ runs[j] = 1
  /\ finishedLabel <= Cardinality({j \in DOMAIN runs : Phase(j) = 4})

\* C19: each job follows the path Submitted -> Queued -> Running ->
\* Completed one step at a time and never backwards, and in every state
\* the job is where its state says (PhaseInv).
C19_JobFollowsItsPath ==
  [][ /\ \A j \in DOMAIN runs : Phase(j)' \in {Phase(j), Phase(j) + 1}
      /\ PhaseInv /\ PhaseInv' ]_vars

\* C19 witness: the first job is Completed and counted in finishedLabel
\* while the second, counted in currentLabel, is Running.
C19_Witness ==
  /\ Phase(1) = 4
  /\ Phase(2) = 3
  /\ finishedLabel = 1
  /\ currentLabel = 2

\* the worker is inside Execute() called by its job
InExecute(w) == pc[w] \in {"ex_store", "ex_push", "ex_poll", "ex_notify"}

\* C20: an Execute() called from inside a running job returns, when every
\* thread is scheduled fairly.
C20_NestedExecuteReturns ==
  \A w \in Workers : [](InExecute(w) => <>(pc[w] = "fin"))

====
